---- MODULE Spec2Model ----
(***************************************************************************)
(* The driver script examples/realdata_djf_ics.py of barotropy as a state  *)
(* machine: the setup section (forcing, prognostics list, monitors,        *)
(* duration parsing) followed by the integration loop.  Times are whole    *)
(* seconds; a timedelta is its number of seconds.  State dictionaries are  *)
(* objects on a heap, named by references, so that in-place updates and    *)
(* rebinding of names are distinguishable.                                 *)
(***************************************************************************)
EXTENDS Integers, Sequences, FiniteSets, TLC

VARIABLES
    pyMajor,        \* major version of the interpreter running the script (2 or 3)
    linearized,     \* option, line 24
    diff_on,        \* option, line 30
    forcing_on,     \* option, line 34
    dt,             \* timestep in seconds, line 22
    duration,       \* run duration string, a sequence of characters, line 23
    forcingLens,    \* lengths of centerlocs, amplitudes, widths, lines 57-59
    ncFileExists,   \* whether ncoutfile is on disk
    pc,             \* position of the script
    abortCause,     \* "none", "config" (raised during setup) or "step" (raised by the stepper)
    prognostics,    \* the list handed to Leapfrog, lines 73-82
    end_date,       \* line 96
    idate,          \* line 99
    heap,           \* reference -> state dictionary [time, diagKeys, diagAt]
    state,          \* the name `state`: a reference
    next_state,     \* the name `next_state`: a reference, or NoRef
    diagnostics,    \* the name `diagnostics`: [keys, at], or NoDiag
    stepArg,        \* the reference last passed to the stepper (line 103)
    iter,           \* number of completed loop iterations
    calls,          \* number of stepper invocations
    failures,       \* number of stepper invocations that raised
    merges,         \* number of state.update(diagnostics) executed
    ncStored,       \* sequence of snapshots handed to nc_monitor.store
    pltStored       \* sequence of snapshots handed to plt_monitor.store

vars == <<pyMajor, linearized, diff_on, forcing_on, dt, duration, forcingLens,
          ncFileExists, pc, abortCause, prognostics, end_date, idate, heap,
          state, next_state, diagnostics, stepArg, iter, calls, failures,
          merges, ncStored, pltStored>>

config == <<pyMajor, linearized, diff_on, forcing_on, dt, duration, forcingLens>>

(***************************************************************************)
(* Program constants and bounds                                            *)
(***************************************************************************)
ncout_freq == 6

plot_freq == 6

DtMinutes == 15

MaxForcingLen == 2

append_nc == FALSE

\* An optional value: None (a missing key, an unbound name) or Some(x).
None == <<>>

Some(x) == <<x>>

Val(o) == o[1]

\* The reference of no object.
NoRef == 0 - 1

NoDiag == [keys |-> {}, at |-> None]

SecondsPerHour == 60 * 60

SecondsPerDay == 24 * SecondsPerHour

\* The interpreters the package declares support for.
PyMajors == {2, 3}

\* Timesteps tried: the script's 15 minutes and three times that.
DtChoices == {DtMinutes * 60, 3 * DtMinutes * 60}

\* Times (seconds since a reference instant) the initial state may carry.
StartChoices == {0, 4500}

\* Duration strings tried, valid and invalid.
DurationChoices ==
    { <<"0","_","1","8",":","0","0">>,
      <<"1","_","0","6",":","3","0">>,
      <<"0","_","0","0",":","4","0">>,
      <<"0","_","0","0",":","0","0">>,
      <<"-","1","_","0","0",":","0","0">>,
      <<"1","_","0","0">>,
      <<"x","_","0","0",":","0","0">>,
      <<"0","_","6",":">>,
      <<"0","_","0","0",":","0","0",":","0","0">> }

(***************************************************************************)
(* Duration parsing: re.split('[_:]', duration), unpacking into d, h, m,   *)
(* int() of each, timedelta(days, hours, minutes).                         *)
(***************************************************************************)
Delims == {"_", ":"}

RECURSIVE SplitFrom(_, _, _)
SplitFrom(s, acc, cur) ==
    IF s = <<>> THEN Append(acc, cur)
    ELSE IF Head(s) \in Delims
         THEN SplitFrom(Tail(s), Append(acc, cur), <<>>)
         ELSE SplitFrom(Tail(s), acc, Append(cur, Head(s)))

ReSplit(s) == SplitFrom(s, <<>>, <<>>)

DigitVal(c) ==
    CASE c = "0" -> 0 [] c = "1" -> 1 [] c = "2" -> 2 [] c = "3" -> 3
      [] c = "4" -> 4 [] c = "5" -> 5 [] c = "6" -> 6 [] c = "7" -> 7
      [] c = "8" -> 8 [] c = "9" -> 9

Digits == {"0","1","2","3","4","5","6","7","8","9"}

AllDigits(f) == Len(f) > 0 /\ \A i \in 1..Len(f) : f[i] \in Digits

\* int(f) succeeds: an optional sign followed by at least one digit.
IsIntLiteral(f) ==
    IF Len(f) > 0 /\ f[1] \in {"-", "+"} THEN AllDigits(Tail(f)) ELSE AllDigits(f)

RECURSIVE DigitsValue(_)
DigitsValue(f) ==
    IF f = <<>> THEN 0
    ELSE 10 * DigitsValue(SubSeq(f, 1, Len(f) - 1)) + DigitVal(f[Len(f)])

PyInt(f) ==
    IF f[1] = "-" THEN 0 - DigitsValue(Tail(f))
    ELSE IF f[1] = "+" THEN DigitsValue(Tail(f))
    ELSE DigitsValue(f)

\* Lines 95-96 raise nothing: three fields, each an integer literal.
DurationValid(s) ==
    LET fields == ReSplit(s)
    IN  Len(fields) = 3 /\ \A i \in 1..3 : IsIntLiteral(fields[i])

\* timedelta(days=int(d), hours=int(h), minutes=int(m)) in seconds.
DurationSeconds(s) ==
    LET fields == ReSplit(s)
    IN  PyInt(fields[1]) * SecondsPerDay + PyInt(fields[2]) * SecondsPerHour
          + PyInt(fields[3]) * 60

(***************************************************************************)
(* Forcing specification check (Forcing.gaussian_tendencies)               *)
(***************************************************************************)
ForcingSpecValid(lens) == lens[1] = lens[2] /\ lens[2] = lens[3]

(***************************************************************************)
(* The prognostics list, lines 65-82                                       *)
(***************************************************************************)
Variant(lin) == IF lin THEN "Linearized" ELSE "Nonlinear"

Wrapped(kind, lin, label) == [kind |-> kind, variant |-> Variant(lin), label |-> label]

\* The list with damping appended outside the forcing_on branch.
PrognosticsListDampingAlways(lin, diff, forc) ==
    <<Wrapped("Dynamics", lin, "dynamics")>>
    \o (IF diff THEN <<Wrapped("Diffusion", lin, "diffusion")>> ELSE <<>>)
    \o (IF forc THEN <<Wrapped("Forcing", lin, "forcing")>> ELSE <<>>)
    \o <<Wrapped("Damping", lin, "damping")>>

PrognosticsList(lin, diff, forc) ==
    <<Wrapped("Dynamics", lin, "dynamics")>>
    \o (IF diff THEN <<Wrapped("Diffusion", lin, "diffusion")>> ELSE <<>>)
    \o (IF forc THEN <<Wrapped("Forcing", lin, "forcing"),
                       Wrapped("Damping", lin, "damping")>>
                ELSE <<>>)

Labels(progs) == {progs[i].label : i \in 1..Len(progs)}

(***************************************************************************)
(* Initial state: the options, and the initial state dictionary (line 53)  *)
(***************************************************************************)
Init ==
    /\ pyMajor \in PyMajors
    /\ linearized \in BOOLEAN
    /\ diff_on \in BOOLEAN
    /\ forcing_on \in BOOLEAN
    /\ dt \in DtChoices
    /\ duration \in DurationChoices
    /\ forcingLens \in (0..MaxForcingLen) \X (0..MaxForcingLen) \X (0..MaxForcingLen)
    /\ ncFileExists \in BOOLEAN
    /\ pc = "forcing"
    /\ abortCause = "none"
    /\ prognostics = <<>>
    /\ end_date = None
    /\ idate = None
    /\ \E t0 \in StartChoices :
         heap = (0 :> [time |-> Some(t0), diagKeys |-> {}, diagAt |-> None])
    /\ state = 0
    /\ next_state = NoRef
    /\ diagnostics = NoDiag
    /\ stepArg = NoRef
    /\ iter = 0
    /\ calls = 0
    /\ failures = 0
    /\ merges = 0
    /\ ncStored = <<>>
    /\ pltStored = <<>>

(***************************************************************************)
(* Setup, lines 56-99                                                      *)
(***************************************************************************)
Raise(cause) ==
    /\ pc' = "aborted"
    /\ abortCause' = cause

\* Lines 56-62: Forcing.gaussian_tendencies builds the forcing component.
BuildForcing ==
    /\ pc = "forcing"
    /\ IF ForcingSpecValid(forcingLens)
       THEN pc' = "prognostics" /\ UNCHANGED abortCause
       ELSE Raise("config")
    /\ UNCHANGED <<config, ncFileExists, prognostics, end_date, idate, heap, state,
                   next_state, diagnostics, stepArg, iter, calls, failures, merges,
                   ncStored, pltStored>>

\* Lines 64-85: the wrapped components and the Leapfrog stepper over them.
BuildPrognostics ==
    /\ pc = "prognostics"
    /\ prognostics' = PrognosticsList(linearized, diff_on, forcing_on)
    /\ pc' = "monitors"
    /\ UNCHANGED <<config, ncFileExists, abortCause, end_date, idate, heap, state,
                   next_state, diagnostics, stepArg, iter, calls, failures, merges,
                   ncStored, pltStored>>

\* Lines 87-92: an existing output file is removed unless appending.
CreateMonitors ==
    /\ pc = "monitors"
    /\ ncFileExists' = (ncFileExists /\ append_nc)
    /\ pc' = "duration"
    /\ UNCHANGED <<config, abortCause, prognostics, end_date, idate, heap, state,
                   next_state, diagnostics, stepArg, iter, calls, failures, merges,
                   ncStored, pltStored>>

\* Duration parsing that falls back to a zero duration instead of raising.
ParseDurationLax ==
    /\ pc = "duration"
    /\ end_date' = IF DurationValid(duration)
                   THEN Some(Val(heap[state].time) + DurationSeconds(duration))
                   ELSE heap[state].time
    /\ idate' = heap[state].time
    /\ pc' = "loop"
    /\ UNCHANGED <<config, ncFileExists, abortCause, prognostics, heap, state,
                   next_state, diagnostics, stepArg, iter, calls, failures, merges,
                   ncStored, pltStored>>

\* Lines 94-99: end_date from the duration string, idate from the state.
ParseDuration ==
    /\ pc = "duration"
    /\ IF DurationValid(duration)
       THEN /\ end_date' = Some(Val(heap[state].time) + DurationSeconds(duration))
            /\ idate' = heap[state].time
            /\ pc' = "loop"
            /\ UNCHANGED abortCause
       ELSE /\ Raise("config")
            /\ UNCHANGED <<end_date, idate>>
    /\ UNCHANGED <<config, ncFileExists, prognostics, heap, state, next_state,
                   diagnostics, stepArg, iter, calls, failures, merges, ncStored,
                   pltStored>>

(***************************************************************************)
(* The integration loop, lines 100-120                                     *)
(***************************************************************************)
TimeOf(ref) == Val(heap[ref].time)

\* The loop condition with < in place of <=.
LoopConditionStrict == TimeOf(state) < Val(end_date)

\* Line 100: while state['time'] <= end_date
LoopCondition == TimeOf(state) <= Val(end_date)

LoopTest ==
    /\ pc = "loop"
    /\ pc' = IF LoopCondition THEN "step" ELSE "done"
    /\ UNCHANGED <<config, ncFileExists, abortCause, prognostics, end_date, idate,
                   heap, state, next_state, diagnostics, stepArg, iter, calls,
                   failures, merges, ncStored, pltStored>>

\* The references the script (and the stepper's last argument) still hold.
Live(refs, h) == [r \in (refs \cap DOMAIN h) |-> h[r]]

\* Line 103, the call returns: diagnostics computed from `state`, and a next
\* state in a new dictionary whose 'time' key the stepper may or may not carry.
StepReturn ==
    /\ pc = "step"
    /\ \E carriesTime \in BOOLEAN :
         LET new == state + 1
             obj == [time |-> IF carriesTime THEN heap[state].time ELSE None,
                     diagKeys |-> {}, diagAt |-> None]
         IN  /\ heap' = Live({state, new}, heap @@ (new :> obj))
             /\ next_state' = new
    /\ diagnostics' = [keys |-> Labels(prognostics), at |-> heap[state].time]
    /\ stepArg' = state
    /\ calls' = calls + 1
    /\ pc' = "merge"
    /\ UNCHANGED <<config, ncFileExists, abortCause, prognostics, end_date, idate,
                   state, iter, failures, merges, ncStored, pltStored>>

\* The call raises and the driver tries the same step again.
StepRaiseRetried ==
    /\ pc = "step"
    /\ stepArg' = state
    /\ calls' = calls + 1
    /\ failures' = failures + 1
    /\ pc' = "step"
    /\ UNCHANGED <<config, ncFileExists, abortCause, prognostics, end_date, idate,
                   heap, state, next_state, diagnostics, iter, merges, ncStored,
                   pltStored>>

\* Line 103, the call raises: nothing is assigned, nothing catches it.
StepRaise ==
    /\ pc = "step"
    /\ stepArg' = state
    /\ calls' = calls + 1
    /\ failures' = failures + 1
    /\ Raise("step")
    /\ UNCHANGED <<config, ncFileExists, prognostics, end_date, idate, heap, state,
                   next_state, diagnostics, iter, merges, ncStored, pltStored>>

\* Copy-on-merge: `state` is rebound to a new dictionary holding the merge.
MergeCopy ==
    /\ pc = "merge"
    /\ LET new == next_state + 1
           merged == [heap[state] EXCEPT !.diagKeys = @ \cup diagnostics.keys,
                                         !.diagAt = diagnostics.at]
       IN  /\ heap' = heap @@ (new :> merged)
           /\ state' = new
    /\ merges' = merges + 1
    /\ pc' = "nc"
    /\ UNCHANGED <<config, ncFileExists, abortCause, prognostics, end_date, idate,
                   next_state, diagnostics, stepArg, iter, calls, failures,
                   ncStored, pltStored>>

\* Line 106: state.update(diagnostics), a dict update in place.
Merge ==
    /\ pc = "merge"
    /\ heap' = [heap EXCEPT ![state].diagKeys = @ \cup diagnostics.keys,
                            ![state].diagAt = diagnostics.at]
    /\ merges' = merges + 1
    /\ pc' = "nc"
    /\ UNCHANGED <<config, ncFileExists, abortCause, prognostics, end_date, idate,
                   state, next_state, diagnostics, stepArg, iter, calls, failures,
                   ncStored, pltStored>>

\* Line 109: fhour, times 3600.  `/` on two ints floors under Python 2 and is
\* the true quotient under Python 3.
FHour3600(elapsed, py) ==
    LET days == elapsed \div SecondsPerDay
        seconds == elapsed % SecondsPerDay
    IN  IF py = 2
        THEN (days * 24 + (seconds \div SecondsPerHour)) * SecondsPerHour
        ELSE days * 24 * SecondsPerHour + seconds

\* Lines 110 and 115: fhour % freq == 0
CadenceHit(elapsed, freq, py) == FHour3600(elapsed, py) % (freq * SecondsPerHour) = 0

Elapsed == TimeOf(state) - Val(idate)

Snapshot(ref) == [ref |-> ref, time |-> heap[ref].time,
                  diagKeys |-> heap[ref].diagKeys, diagAt |-> heap[ref].diagAt]

\* The monitor is handed next_state instead of state.
NcStoreNext ==
    /\ pc = "nc"
    /\ IF CadenceHit(Elapsed, ncout_freq, pyMajor)
       THEN /\ ncStored' = Append(ncStored, Snapshot(next_state))
            /\ ncFileExists' = TRUE
       ELSE UNCHANGED <<ncStored, ncFileExists>>
    /\ pc' = "plot"
    /\ UNCHANGED <<config, abortCause, prognostics, end_date, idate, heap, state,
                   next_state, diagnostics, stepArg, iter, calls, failures, merges,
                   pltStored>>

\* Lines 108-112: nc_monitor.store(state) on the cadence (write_on_store).
NcStore ==
    /\ pc = "nc"
    /\ IF CadenceHit(Elapsed, ncout_freq, pyMajor)
       THEN /\ ncStored' = Append(ncStored, Snapshot(state))
            /\ ncFileExists' = TRUE
       ELSE UNCHANGED <<ncStored, ncFileExists>>
    /\ pc' = "plot"
    /\ UNCHANGED <<config, abortCause, prognostics, end_date, idate, heap, state,
                   next_state, diagnostics, stepArg, iter, calls, failures, merges,
                   pltStored>>

\* Lines 114-116: plt_monitor.store(state) on the cadence.
PlotStore ==
    /\ pc = "plot"
    /\ IF CadenceHit(Elapsed, plot_freq, pyMajor)
       THEN pltStored' = Append(pltStored, Snapshot(state))
       ELSE UNCHANGED pltStored
    /\ pc' = "advance"
    /\ UNCHANGED <<config, ncFileExists, abortCause, prognostics, end_date, idate,
                   heap, state, next_state, diagnostics, stepArg, iter, calls,
                   failures, merges, ncStored>>

\* The advance without the timestep added to the time.
AdvanceWithoutDt ==
    /\ pc = "advance"
    /\ heap' = [heap EXCEPT ![next_state].time = Some(TimeOf(state))]
    /\ state' = next_state
    /\ iter' = iter + 1
    /\ pc' = "loop"
    /\ UNCHANGED <<config, ncFileExists, abortCause, prognostics, end_date, idate,
                   next_state, diagnostics, stepArg, calls, failures, merges,
                   ncStored, pltStored>>

\* Lines 118-120: next_state['time'] = state['time'] + dt; state = next_state
Advance ==
    /\ pc = "advance"
    /\ heap' = [heap EXCEPT ![next_state].time = Some(TimeOf(state) + dt)]
    /\ state' = next_state
    /\ iter' = iter + 1
    /\ pc' = "loop"
    /\ UNCHANGED <<config, ncFileExists, abortCause, prognostics, end_date, idate,
                   next_state, diagnostics, stepArg, calls, failures, merges,
                   ncStored, pltStored>>

Next ==
    \/ BuildForcing
    \/ BuildPrognostics
    \/ CreateMonitors
    \/ ParseDuration
    \/ LoopTest
    \/ StepReturn
    \/ StepRaise
    \/ Merge
    \/ NcStore
    \/ PlotStore
    \/ Advance

Spec == Init /\ [][Next]_vars

\* The interpreter runs the script to its end: no step waits on anything.
FairSpec == Spec /\ WF_vars(Next)

(***************************************************************************)
(* Properties                                                              *)
(***************************************************************************)
InLoopBody == pc \in {"step", "merge", "nc", "plot", "advance"}

NcStoredAt(t) == \E i \in 1..Len(ncStored) : ncStored[i].time = Some(t)

AllStored == {ncStored[i] : i \in 1..Len(ncStored)}
             \cup {pltStored[i] : i \in 1..Len(pltStored)}

\* C1: in every iteration nc_monitor.store is called if and only if the time
\* elapsed since idate is an exact whole multiple of ncout_freq hours.
C1_StoreIffWholeMultiple ==
    pc \in {"plot", "advance"} =>
        (NcStoredAt(TimeOf(state)) <=> (Elapsed % (ncout_freq * SecondsPerHour) = 0))

\* C4: the state used in iteration n carries the time idate + n*dt, whatever
\* the stepper left in the next state's 'time': the driver assigns it.
C4_TimeIsStartPlusSteps ==
    idate # None => heap[state].time = Some(Val(idate) + iter * dt)

C4_Witness ==
    /\ pc = "step"
    /\ iter = 3
    /\ TimeOf(state) = Val(idate) + 3 * dt

\* The number of steps a run of the given duration performs when none fails.
ExpectedSteps ==
    IF DurationSeconds(duration) < 0 THEN 0 ELSE DurationSeconds(duration) \div dt + 1

C5_Safety ==
    /\ InLoopBody => TimeOf(state) <= Val(end_date)
    /\ idate # None => calls <= ExpectedSteps
    /\ pc = "done" => /\ TimeOf(state) > Val(end_date)
                      /\ calls > 0 => TimeOf(state) - dt <= Val(end_date)
                      /\ failures = 0
                      /\ calls = ExpectedSteps
    /\ pc = "aborted" => abortCause \in {"config", "step"}

\* C5: the run ends, and only at the end time or by a failure: a step is
\* executed for every state with time <= end_date, the loop exits at the first
\* state with time > end_date, and the number of steps is finite.
C5_RunTerminatesAtEndDate == []C5_Safety /\ <>(pc \in {"done", "aborted"})

C5_Witness ==
    /\ pc = "done"
    /\ calls > 2
    /\ DurationSeconds(duration) % dt = 0
    /\ TimeOf(state) = Val(end_date) + dt

\* C6: once the stepper has raised, the run is over: the names diagnostics and
\* next_state were not assigned by the failing call, its diagnostics were not
\* merged, the state it was given was handed to no monitor, and no later call
\* was made.
C6_StepFailureIsFatal ==
    failures > 0 =>
        /\ pc = "aborted"
        /\ abortCause = "step"
        /\ failures = 1
        /\ merges = calls - 1
        /\ iter = calls - 1
        /\ next_state \in {NoRef, state}
        /\ diagnostics.at # heap[state].time
        /\ heap[state].diagAt = None
        /\ \A r \in AllStored : r.ref # state

C6_Witness ==
    /\ pc = "aborted"
    /\ abortCause = "step"
    /\ calls > 2
    /\ Len(ncStored) > 0

ConfigInvalid ==
    LET fields == ReSplit(duration)
    IN  \/ Len(fields) # 3
        \/ \E i \in 1..Len(fields) : ~IsIntLiteral(fields[i])
        \/ forcingLens[1] # forcingLens[2]
        \/ forcingLens[2] # forcingLens[3]

\* C7: with an invalid duration string or a forcing specification of unequal
\* lengths, the script stops during setup: no step is executed and no monitor
\* store is called.
C7_ConfigErrorsBeforeLoop ==
    ConfigInvalid =>
        /\ pc \in {"forcing", "prognostics", "monitors", "duration", "aborted"}
        /\ abortCause \in {"none", "config"}
        /\ calls = 0
        /\ ncStored = <<>>
        /\ pltStored = <<>>

C7_Witness ==
    /\ pc = "aborted"
    /\ abortCause = "config"
    /\ Len(ReSplit(duration)) # 3
    /\ forcingLens[1] = forcingLens[2]
    /\ forcingLens[2] = forcingLens[3]
    /\ prognostics # <<>>

\* C8 as stated: the merge does not modify the object that was passed to the
\* stepper, and the stepper's next state is another object.
C8_MergeLeavesStepperArgument ==
    [][pc = "merge" => (heap'[stepArg] = heap[stepArg] /\ next_state # stepArg)]_vars

\* C8 as amended: the merge updates in place the very object that was passed to
\* the stepper, adding that step's diagnostics and changing neither its time
\* nor the binding of `state`; the next state is another object, which the
\* merge leaves alone.
C8_MergeUpdatesInPlace ==
    [][pc = "merge" =>
          /\ state' = state
          /\ stepArg = state
          /\ heap'[state].time = heap[state].time
          /\ heap'[state].diagKeys = heap[state].diagKeys \cup diagnostics.keys
          /\ heap'[state].diagAt = diagnostics.at
          /\ next_state # state
          /\ heap'[next_state] = heap[next_state]]_vars

C8_Witness ==
    /\ pc = "nc"
    /\ iter > 0
    /\ stepArg = state
    /\ heap[stepArg].diagKeys # {}
    /\ heap[stepArg].diagAt = heap[stepArg].time

\* C9: the iteration runs step, merge, stores, advance in that order, and every
\* snapshot handed to a monitor is the state that was stepped, at its time t,
\* with the diagnostics computed from it at t.
C9_StoreSeesSteppedStateWithItsDiagnostics ==
    /\ pc \in {"loop", "step"} => calls = iter /\ merges = iter
    /\ pc = "merge" => calls = iter + 1 /\ merges = iter
    /\ pc \in {"nc", "plot", "advance"} => calls = iter + 1 /\ merges = iter + 1
    /\ \A r \in AllStored :
          /\ r.ref <= iter
          /\ r.ref = iter => pc \in {"plot", "advance"}
          /\ r.time = Some(Val(idate) + r.ref * dt)
          /\ r.diagAt = r.time
          /\ r.diagKeys = Labels(prognostics)

C9_Witness ==
    /\ pc = "advance"
    /\ Len(ncStored) > 2
    /\ Len(pltStored) > 2
    /\ ncStored[Len(ncStored)].ref = state

HasAt(progs, i, kind, label) ==
    /\ i \in 1..Len(progs)
    /\ progs[i].kind = kind
    /\ progs[i].label = label

\* C10: the component list starts with dynamics, holds diffusion iff diff_on,
\* holds forcing directly followed by damping iff forcing_on, is all of the
\* variant the linearized switch selects, and has pairwise distinct labels.
C10_PrognosticsFollowSwitches ==
    prognostics # <<>> =>
        /\ HasAt(prognostics, 1, "Dynamics", "dynamics")
        /\ diff_on <=> HasAt(prognostics, 2, "Diffusion", "diffusion")
        /\ diff_on <=> ("diffusion" \in Labels(prognostics))
        /\ forcing_on <=> \E i \in 2..Len(prognostics) :
                             /\ HasAt(prognostics, i, "Forcing", "forcing")
                             /\ HasAt(prognostics, i + 1, "Damping", "damping")
        /\ forcing_on <=> ("forcing" \in Labels(prognostics))
        /\ forcing_on <=> ("damping" \in Labels(prognostics))
        /\ Labels(prognostics) \subseteq {"dynamics", "diffusion", "forcing", "damping"}
        /\ \A i \in 1..Len(prognostics) :
              prognostics[i].variant = (IF linearized THEN "Linearized" ELSE "Nonlinear")
        /\ \A i, j \in 1..Len(prognostics) :
              i # j => prognostics[i].label # prognostics[j].label

C10_Witness ==
    /\ pc = "merge"
    /\ forcing_on
    /\ ~diff_on
    /\ ~linearized
    /\ Len(prognostics) = 3
    /\ diagnostics.keys = {"dynamics", "forcing", "damping"}

====
